---- MODULE Spec2Model ----
(***************************************************************************)
(* HDF5 input adapters of a5py: the 3D electric field (E_3DS), the         *)
(* particle markers (mrk_prt) and the run options (options).               *)
(*                                                                         *)
(* The HDF5 file is a map from group paths to groups; a group holds        *)
(* attributes and datasets; a dataset holds a shape, a type and its        *)
(* elements in C (row-major) order.  An n-dimensional array is a record    *)
(* [shape, data] with data the flattened elements in C order.             *)
(* Numbers are counted in halves (the integer v stands for v/2), so that   *)
(* a conversion to an integer type is visible.                             *)
(***************************************************************************)
EXTENDS Integers, Sequences, FiniteSets, TLC

VARIABLES file, call, ret

vars == <<file, call, ret>>

(***************************************************************************)
(* Bounds of the model.                                                    *)
(***************************************************************************)
\* largest number of elements of a field component
MaxSize == 4
\* largest number of markers
MaxN == 2
\* largest number of keys of an options dictionary
MaxKeys == 3

\* the most rows of a radial profile table
MaxRows == 3

\* the largest rho of a radial profile table
MaxRho == 3

\* the identifiers add_group may draw (random ten-digit strings in the code)
Qids == {"0000000001", "0000000002"}

\* the descriptions passed as desc
Descs == {"None"}

(***************************************************************************)
(* Arrays.                                                                 *)
(***************************************************************************)
RECURSIVE Prod(_)
Prod(s) == IF s = <<>> THEN 1 ELSE Head(s) * Prod(Tail(s))

\* ndarray.size
Size(a) == Prod(a.shape)

\* the index tuple (0-based) of the flat C-order position q (0-based)
RECURSIVE Unravel(_, _)
Unravel(q, shape) ==
  IF shape = <<>> THEN <<>>
  ELSE LET rest == Prod(Tail(shape))
       IN  <<q \div rest>> \o Unravel(q % rest, Tail(shape))

\* the flat C-order position (0-based) of an index tuple (0-based)
RECURSIVE Ravel(_, _)
Ravel(idx, shape) ==
  IF shape = <<>> THEN 0
  ELSE Head(idx) * Prod(Tail(shape)) + Ravel(Tail(idx), Tail(shape))

\* a[i, j, k]
At(a, idx) == a.data[Ravel(idx, a.shape) + 1]

\* the axes permuted in the shape alone, the elements left in their order
np_reshape_axes(a, axes) ==
  [shape |-> [m \in 1..Len(axes) |-> a.shape[axes[m] + 1]], data |-> a.data]

\* np.transpose(a, axes): axis m of the result is axis axes[m] of a
np_transpose(a, axes) ==
  LET n  == Len(a.shape)
      sh == [m \in 1..n |-> a.shape[axes[m] + 1]]
  IN  [shape |-> sh,
       data  |-> [q \in 1..Prod(sh) |->
                    LET t == Unravel(q - 1, sh)
                        s == [d \in 1..n |->
                                t[CHOOSE m \in 1..n : axes[m] + 1 = d]]
                    IN  At(a, s)]]

(***************************************************************************)
(* The HDF5 file.                                                          *)
(***************************************************************************)
NoGroups == [p \in {} |-> 0]

NoFile == [exists |-> FALSE, groups |-> NoGroups]

\* the identifiers already used by a group of the file
UsedQids(f) == {p[2][3] : p \in DOMAIN f.groups}

FreshQids(f) == Qids \ UsedQids(f)

\* h5py.File(fn, "w"): creates the file, truncating it when it exists
h5_open_truncate(f) == [exists |-> TRUE, groups |-> NoGroups]

\* h5py.File(fn, "a"): opens the file, creating it when missing
h5_open_append(f) == [f EXCEPT !.exists = TRUE]

\* add_group(f, parent, group, desc) of _iohelpers.fileapi: a new, empty group
\* named <group>_<qid> under parent, with its date and description
fileapi_add_group(f, parent, group, desc, qid) ==
  LET name == <<group, "_", qid>>
      g    == [attrs |-> [date |-> "date",
                          description |-> IF desc = "None" THEN "No description."
                                          ELSE desc],
               dsets |-> NoGroups]
  IN  [file |-> [f EXCEPT !.groups = (<<parent, name>> :> g) @@ @],
       name |-> <<parent, name>>]

\* g.name taken whole, with the parent path
WholeName(path) == path

\* g.name.split("/")[-1]
LastComponent(path) == path[Len(path)]

\* conversion of one number (in halves) to a dataset type: a float keeps it,
\* an integer type drops the fraction (towards zero).  Numbers beyond the
\* range of the type are not among the inputs of the model.
CastTo(dtype, v) ==
  IF dtype = "f8" THEN v
  ELSE IF v >= 0 THEN (v \div 2) * 2 ELSE -(((-v) \div 2) * 2)

\* g.create_dataset(name, shape, data=data, dtype=dtype): data is converted to
\* dtype and stored with the given shape (every call of the writers passes a
\* shape with the number of elements of data)
create_dataset(f, path, name, shape, data, dtype) ==
  LET d == [shape |-> shape, dtype |-> dtype,
            data  |-> [q \in 1..Len(data.data) |-> CastTo(dtype, data.data[q])]]
  IN  [f EXCEPT !.groups[path].dsets = (name :> d) @@ @]

\* f[path][key][:] : the dataset as an array
ReadDataset(d) == [shape |-> d.shape, data |-> d.data]

\* a Python scalar as array data
Scalar(v) == [shape |-> <<>>, data |-> <<v>>]

(***************************************************************************)
(* E_3DS: the 3D electric field input.                                     *)
(***************************************************************************)
Reverse(s) == [m \in 1..Len(s) |-> s[Len(s) + 1 - m]]

\* the declared grids: nr, nphi, nz >= 1 with at most MaxSize grid points
Shapes3 ==
  {s \in (1..MaxSize) \X (1..MaxSize) \X (1..MaxSize) : Prod(s) <= MaxSize}

\* an input array of the given shape, all elements different
Ramp(shape, base) ==
  [shape |-> shape, data |-> [p \in 1..Prod(shape) |-> base + p]]

\* the shapes a component may come with: the declared one, or one of two
\* others with the same number of elements
EAltShapes(s) == {<<Prod(s)>>, Reverse(s)}

\* the call write_hdf5(fn, rmin, rmax, nr, zmin, zmax, nz, phimin, phimax, nphi,
\* er, ephi, ez, desc) with the grid s declared and the components named in bad
\* coming with the shape alt
EInput(s, bad, alt, desc) ==
  [rmin |-> 2, rmax |-> 17, nr |-> s[1],
   zmin |-> -4, zmax |-> 4, nz |-> s[3],
   phimin |-> 0, phimax |-> 720, nphi |-> s[2],
   er   |-> Ramp(IF "er"   \in bad THEN alt ELSE s, 100),
   ephi |-> Ramp(IF "ephi" \in bad THEN alt ELSE s, 200),
   ez   |-> Ramp(IF "ez"   \in bad THEN alt ELSE s, 300),
   desc |-> desc]

Raise(f, kind, msg) ==
  [file |-> f, ret |-> [status |-> kind, msg |-> msg]]

\* the validation with the sizes compared in place of the shapes
E_size_differs(arr, nr, nphi, nz) == Size(arr) # nr * nphi * nz

\* er.shape != (nr, nphi, nz)
E_shape_differs(arr, nr, nphi, nz) == arr.shape # <<nr, nphi, nz>>

\* the validation of write_hdf5: the message of the ValueError raised, or "none"
E_3DS_check(a) ==
  IF E_shape_differs(a.er, a.nr, a.nphi, a.nz)
    THEN "ER has an inconsinstent shape."
  ELSE IF E_shape_differs(a.ephi, a.nr, a.nphi, a.nz)
    THEN "Ephi has an inconsinstent shape."
  ELSE IF E_shape_differs(a.ez, a.nr, a.nphi, a.nz)
    THEN "Ez has an inconsinstent shape."
  ELSE "none"

\* the body of "with h5py.File(fn, "a") as f" of E_3DS.write_hdf5
E_3DS_write_group(f, a, qid) ==
  LET er   == np_transpose(a.er,   <<2, 1, 0>>)
      ephi == np_transpose(a.ephi, <<2, 1, 0>>)
      ez   == np_transpose(a.ez,   <<2, 1, 0>>)
      g    == fileapi_add_group(h5_open_append(f), "efield", "E_3DS", a.desc, qid)
      p    == g.name
      f1   == create_dataset(g.file, p, "rmin",   <<1>>, Scalar(a.rmin),     "f8")
      f2   == create_dataset(f1,     p, "rmax",   <<1>>, Scalar(a.rmax),     "f8")
      f3   == create_dataset(f2,     p, "nr",     <<1>>, Scalar(2 * a.nr),   "i4")
      f4   == create_dataset(f3,     p, "phimin", <<1>>, Scalar(a.phimin),   "f8")
      f5   == create_dataset(f4,     p, "phimax", <<1>>, Scalar(a.phimax),   "f8")
      f6   == create_dataset(f5,     p, "nphi",   <<1>>, Scalar(2 * a.nphi), "i4")
      f7   == create_dataset(f6,     p, "zmin",   <<1>>, Scalar(a.zmin),     "f8")
      f8   == create_dataset(f7,     p, "zmax",   <<1>>, Scalar(a.zmax),     "f8")
      f9   == create_dataset(f8,     p, "nz",     <<1>>, Scalar(2 * a.nz),   "i4")
      f10  == create_dataset(f9,  p, "er",   <<a.nz, a.nphi, a.nr>>, er,   "f8")
      f11  == create_dataset(f10, p, "ephi", <<a.nz, a.nphi, a.nr>>, ephi, "f8")
      f12  == create_dataset(f11, p, "ez",   <<a.nz, a.nphi, a.nr>>, ez,   "f8")
  IN  [file |-> f12,
       ret  |-> [status |-> "ok", value |-> LastComponent(p)]]

\* write_hdf5 with the file opened before the inputs are validated
E_3DS_write_hdf5_open_first(f, a, qid) ==
  IF E_3DS_check(a) # "none"
    THEN Raise(h5_open_append(f), "ValueError", E_3DS_check(a))
    ELSE E_3DS_write_group(f, a, qid)

\* E_3DS.write_hdf5; qid is the identifier add_group draws.  np.transpose
\* with three axes raises for an array of another rank (no array that passed
\* the validation has one)
E_3DS_write_hdf5(f, a, qid) ==
  IF E_3DS_check(a) # "none"
    THEN Raise(f, "ValueError", E_3DS_check(a))
  ELSE IF \E c \in {a.er, a.ephi, a.ez} : Len(c.shape) # 3
    THEN Raise(f, "ValueError", "axes don't match array")
    ELSE E_3DS_write_group(f, a, qid)

\* read_hdf5 returning the datasets as stored
E_3DS_read_hdf5_as_stored(f, qid) ==
  LET path == <<"efield", <<"E_3DS", "_", qid>> >>
  IN  IF ~f.exists THEN [status |-> "OSError", msg |-> "no such file"]
      ELSE IF path \notin DOMAIN f.groups
        THEN [status |-> "KeyError", msg |-> "no such group"]
      ELSE
        LET d   == f.groups[path].dsets
        IN  [status |-> "ok",
             value  |-> [key \in DOMAIN d |-> ReadDataset(d[key])]]

\* E_3DS.read_hdf5(fn, qid): the dictionary read, or the error of h5py
E_3DS_read_hdf5(f, qid) ==
  LET path == <<"efield", <<"E_3DS", "_", qid>> >>
  IN  IF ~f.exists THEN [status |-> "OSError", msg |-> "no such file"]
      ELSE IF path \notin DOMAIN f.groups
        THEN [status |-> "KeyError", msg |-> "no such group"]
      ELSE
        LET d   == f.groups[path].dsets
            out == [key \in DOMAIN d |-> ReadDataset(d[key])]
        IN  IF ~({"er", "ephi", "ez"} \subseteq DOMAIN out)
              THEN [status |-> "KeyError", msg |-> "no such dataset"]
              ELSE [status |-> "ok",
                    value  |-> [out EXCEPT
                                 !["er"]   = np_transpose(@, <<2, 1, 0>>),
                                 !["ephi"] = np_transpose(@, <<2, 1, 0>>),
                                 !["ez"]   = np_transpose(@, <<2, 1, 0>>)]]

\* the identifiers a call may draw: a fresh one when the input is accepted
\* (none is drawn when it is rejected)
Draw(f, accepted) ==
  IF accepted THEN FreshQids(f) ELSE {CHOOSE q \in Qids : TRUE}

\* the caller is between two calls
Idle == call.op = "none"

\* the caller takes the result of the call; the next call may start
Return ==
  /\ ~Idle
  /\ call' = [op |-> "none"]
  /\ ret'  = [status |-> "none"]
  /\ UNCHANGED file

\* a call of E_3DS.write_hdf5 in which the components of one of the sets bads
\* come with another shape than the declared one
E_call(bads) ==
  /\ Idle
  /\ \E s \in Shapes3, bad \in bads, desc \in Descs :
       \E alt \in EAltShapes(s) :
         LET a == EInput(s, bad, alt, desc)
         IN  \E qid \in Draw(file, E_3DS_check(a) = "none") :
               LET r == E_3DS_write_hdf5(file, a, qid)
               IN  /\ call' = [op |-> "E_write", args |-> a]
                   /\ file' = r.file
                   /\ ret'  = r.ret

E_write == E_call(SUBSET {"er", "ephi", "ez"})

E_read ==
  /\ Idle
  /\ \E qid \in Qids :
    /\ call' = [op |-> "E_read", qid |-> qid]
    /\ ret'  = E_3DS_read_hdf5(file, qid)
    /\ UNCHANGED file

(***************************************************************************)
(* mrk_prt: the particle marker input.                                     *)
(***************************************************************************)
\* the thirteen marker arrays, in the order of the parameters of write_hdf5
MrkFields ==
  <<"ids", "mass", "charge", "r", "phi", "z", "vr", "vphi", "vz",
    "anum", "znum", "weight", "time">>

MrkFieldSet == {MrkFields[i] : i \in 1..Len(MrkFields)}

FieldIndex(fld) == CHOOSE i \in 1..Len(MrkFields) : MrkFields[i] = fld

\* element p of the marker array fld, in halves: whole numbers (the charge
\* negative) in the kind "int", numbers with a fraction in the kind "frac"
MrkValue(fld, p, kind) ==
  LET v == 2 * (10 * FieldIndex(fld) + p)
  IN  IF kind = "frac" THEN v + 1
      ELSE IF fld = "charge" THEN -v ELSE v

\* a one-dimensional marker array of len elements
MrkArray(fld, len, kind) ==
  [shape |-> <<len>>, data |-> [p \in 1..len |-> MrkValue(fld, p, kind)]]

\* the call write_hdf5(fn, n, ids, ..., time, desc) where the arrays named in
\* bad come with n + 1 elements
MrkInput(n, bad, kind, desc) ==
  [fld \in MrkFieldSet |->
     MrkArray(fld, IF fld \in bad THEN n + 1 ELSE n, kind)]
  @@ [n |-> n, desc |-> desc]

\* at most two of the arrays come with a wrong size
MrkBadSets == {b \in SUBSET MrkFieldSet : Cardinality(b) <= 2}

\* the values the arrays hold: both kinds when all sizes are right (the values
\* of a rejected call are never looked at)
MrkKinds(bad) == IF bad = {} THEN {"int", "frac"} ELSE {"int"}

\* create_dataset(...).attrs['unit'] = unit
create_dataset_unit(f, path, name, shape, data, dtype, unit) ==
  LET f1 == create_dataset(f, path, name, shape, data, dtype)
  IN  [f1 EXCEPT !.groups[path].dsets[name] = [unit |-> unit] @@ @]

\* the validation with the arrays taken in the order the datasets are written
mrk_prt_check_dataset_order(a) ==
  IF Size(a.r) # a.n THEN "Inconsistent size for r."
  ELSE IF Size(a.phi) # a.n THEN "Inconsistent size for phi."
  ELSE IF Size(a.z) # a.n THEN "Inconsistent size for z."
  ELSE IF Size(a.vr) # a.n THEN "Inconsistent size for vR."
  ELSE IF Size(a.vphi) # a.n THEN "Inconsistent size for vphi."
  ELSE IF Size(a.vz) # a.n THEN "Inconsistent size for vz."
  ELSE IF Size(a.mass) # a.n THEN "Inconsistent size for mass."
  ELSE IF Size(a.charge) # a.n THEN "Inconsistent size for charge."
  ELSE IF Size(a.anum) # a.n THEN "Inconsistent size for anum."
  ELSE IF Size(a.znum) # a.n THEN "Inconsistent size for znum."
  ELSE IF Size(a.weight) # a.n THEN "Inconsistent size for weight."
  ELSE IF Size(a.time) # a.n THEN "Inconsistent size for time."
  ELSE IF Size(a.ids) # a.n THEN "Inconsistent size for ids."
  ELSE "none"

\* the validation of write_hdf5: the message of the ValueError raised, or "none"
mrk_prt_check(a) ==
  IF Size(a.ids) # a.n THEN "Inconsistent size for ids."
  ELSE IF Size(a.mass) # a.n THEN "Inconsistent size for mass."
  ELSE IF Size(a.charge) # a.n THEN "Inconsistent size for charge."
  ELSE IF Size(a.r) # a.n THEN "Inconsistent size for r."
  ELSE IF Size(a.phi) # a.n THEN "Inconsistent size for phi."
  ELSE IF Size(a.z) # a.n THEN "Inconsistent size for z."
  ELSE IF Size(a.vr) # a.n THEN "Inconsistent size for vR."
  ELSE IF Size(a.vphi) # a.n THEN "Inconsistent size for vphi."
  ELSE IF Size(a.vz) # a.n THEN "Inconsistent size for vz."
  ELSE IF Size(a.anum) # a.n THEN "Inconsistent size for anum."
  ELSE IF Size(a.znum) # a.n THEN "Inconsistent size for znum."
  ELSE IF Size(a.weight) # a.n THEN "Inconsistent size for weight."
  ELSE IF Size(a.time) # a.n THEN "Inconsistent size for time."
  ELSE "none"

\* the fourteen create_dataset calls of mrk_prt.write_hdf5 on the group at p
mrk_prt_write_datasets(f, p, a) ==
  LET f1 == create_dataset_unit(f, p, "n", <<1, 1>>, Scalar(2 * a.n), "i8", "1")
      f2 == create_dataset_unit(f1, p, "r", <<a.n, 1>>, a.r, "f8", "m")
      f3 == create_dataset_unit(f2, p, "phi", <<a.n, 1>>, a.phi, "f8", "deg")
      f4 == create_dataset_unit(f3, p, "z", <<a.n, 1>>, a.z, "f8", "m")
      f5 == create_dataset_unit(f4, p, "vr", <<a.n, 1>>, a.vr, "f8", "m/s")
      f6 == create_dataset_unit(f5, p, "vphi", <<a.n, 1>>, a.vphi, "f8", "m/s")
      f7 == create_dataset_unit(f6, p, "vz", <<a.n, 1>>, a.vz, "f8", "m/s")
      f8 == create_dataset_unit(f7, p, "mass", <<a.n, 1>>, a.mass, "f8", "amu")
      f9 == create_dataset_unit(f8, p, "charge", <<a.n, 1>>, a.charge, "i4", "e")
      f10 == create_dataset_unit(f9, p, "anum", <<a.n, 1>>, a.anum, "i4", "1")
      f11 == create_dataset_unit(f10, p, "znum", <<a.n, 1>>, a.znum, "i4", "1")
      f12 == create_dataset_unit(f11, p, "weight", <<a.n, 1>>, a.weight, "f8", "markers/s")
      f13 == create_dataset_unit(f12, p, "time", <<a.n, 1>>, a.time, "f8", "s")
      f14 == create_dataset_unit(f13, p, "id", <<a.n, 1>>, a.ids, "i8", "1")
  IN  f14

\* the body with the data of vphi and vz interchanged
mrk_prt_write_group_swapped(f, a, qid) ==
  LET g == fileapi_add_group(h5_open_append(f), "marker", "prt", a.desc, qid)
  IN  [file |-> mrk_prt_write_datasets(g.file, g.name,
                                       [a EXCEPT !.vphi = a.vz, !.vz = a.vphi]),
       ret  |-> [status |-> "ok", value |-> LastComponent(g.name)]]

\* the body of "with h5py.File(fn, "a") as f" of mrk_prt.write_hdf5
mrk_prt_write_group(f, a, qid) ==
  LET g == fileapi_add_group(h5_open_append(f), "marker", "prt", a.desc, qid)
  IN  [file |-> mrk_prt_write_datasets(g.file, g.name, a),
       ret  |-> [status |-> "ok", value |-> LastComponent(g.name)]]

\* mrk_prt.write_hdf5; qid is the identifier add_group draws
mrk_prt_write_hdf5(f, a, qid) ==
  IF mrk_prt_check(a) # "none"
    THEN Raise(f, "ValueError", mrk_prt_check(a))
    ELSE mrk_prt_write_group(f, a, qid)

\* a5py.ascot5io.mrk.read_hdf5(fn, qid, prefix): every dataset of the group as
\* a one-dimensional array, under the names write_hdf5 takes (id as ids)
mrk_read_hdf5(f, qid, prefix) ==
  LET path == <<"marker", <<prefix, "_", qid>> >>
  IN  IF ~f.exists THEN [status |-> "OSError", msg |-> "no such file"]
      ELSE IF path \notin DOMAIN f.groups
        THEN [status |-> "KeyError", msg |-> "no such group"]
      ELSE
        LET d    == f.groups[path].dsets
            flat == [key \in DOMAIN d |->
                       [shape |-> <<Prod(d[key].shape)>>, data |-> d[key].data]]
        IN  IF "id" \notin DOMAIN d
              THEN [status |-> "KeyError", msg |-> "no such dataset"]
              ELSE [status |-> "ok",
                    value  |-> [key \in (DOMAIN d \ {"id"}) \cup {"ids"} |->
                                  IF key = "ids" THEN flat["id"] ELSE flat[key]]]

\* mrk_prt.read_hdf5(fn, qid)
mrk_prt_read_hdf5(f, qid) == mrk_read_hdf5(f, qid, "prt")

\* a call of mrk_prt.write_hdf5 in which the arrays of one of the sets bads
\* have another size than n
Mrk_call(bads) ==
  /\ Idle
  /\ \E n \in 1..MaxN, bad \in bads, desc \in Descs :
      \E kind \in MrkKinds(bad) :
       LET a == MrkInput(n, bad, kind, desc)
       IN  \E qid \in Draw(file, mrk_prt_check(a) = "none") :
             LET r == mrk_prt_write_hdf5(file, a, qid)
             IN  /\ call' = [op |-> "Mrk_write", args |-> a]
                 /\ file' = r.file
                 /\ ret'  = r.ret

Mrk_write == Mrk_call(MrkBadSets)

Mrk_read ==
  /\ Idle
  /\ \E qid \in Qids :
       /\ call' = [op |-> "Mrk_read", qid |-> qid]
       /\ ret'  = mrk_prt_read_hdf5(file, qid)
       /\ UNCHANGED file

(***************************************************************************)
(* options: the run options.                                               *)
(***************************************************************************)
\* the list get_default builds before it is cleaned: banners as 1-tuples,
\* parameters as (name, comment, value).  A banner is given by its title line
\* and a comment by its first line, each with the indentation it has in the
\* source; a value is given as it is written in the source.
DefaultInfo ==
<<
  <<[indent |-> 4, text |-> "#* SIMULATION MODE AND TIME-STEP *#"]>>,
  <<"SIM_MODE",
    [indent |-> 9, text |-> "# Simulation mode (1, 2, 3, 4)"],
    "3">>,
  <<"ENABLE_ADAPTIVE",
    [indent |-> 9, text |-> "# Use adaptive time-step (0, 1)"],
    "1">>,
  <<"RECORD_GO_AS_GC",
    [indent |-> 9, text |-> "# Record GOs as GCs in diagnostics (0, 1)"],
    "0">>,
  <<"FIXEDSTEP_USE_USERDEFINED",
    [indent |-> 9, text |-> "# Define fixed time-step value explicitly (0,1)"],
    "0">>,
  <<"FIXEDSTEP_USERDEFINED",
    [indent |-> 9, text |-> "# User-defined time-step [s]"],
    "1e-8">>,
  <<"FIXEDSTEP_NSTEPS_PER_GYROTIME",
    [indent |-> 9, text |-> "# Time-step is 2pi / ( gyrofrequency * N ) where N is this parameter"],
    "20">>,
  <<"ADAPTIVE_TOL_ORBIT",
    [indent |-> 9, text |-> "# Relative error tolerance for orbit following in adaptive scheme"],
    "1e-8">>,
  <<"ADAPTIVE_TOL_CCOL",
    [indent |-> 9, text |-> "# Relative error tolerance for Coulomb collisions in adaptive scheme"],
    "1e-1">>,
  <<"ADAPTIVE_MAX_DRHO",
    [indent |-> 9, text |-> "# Maximum allowed change in rho during one time-step in adaptive scheme"],
    "0.1">>,
  <<"ADAPTIVE_MAX_DPHI",
    [indent |-> 9, text |-> "# Maximum allowed change in phi during one time-step in adaptive scheme"],
    "2">>,
  <<[indent |-> 4, text |-> "#* END CONDITIONS *#"]>>,
  <<"ENDCOND_SIMTIMELIM",
    [indent |-> 9, text |-> "# Terminate when marker's clock ('laboratory') time reaches a limit"],
    "1">>,
  <<"ENDCOND_CPUTIMELIM",
    [indent |-> 9, text |-> "# Terminate when marker's cpu time reaches a limit"],
    "1">>,
  <<"ENDCOND_RHOLIM",
    [indent |-> 9, text |-> "# Terminate if marker goes outside given rho boundaries"],
    "0">>,
  <<"ENDCOND_ENERGYLIM",
    [indent |-> 9, text |-> "# Terminate when marker energy is below a user-specified value"],
    "1">>,
  <<"ENDCOND_WALLHIT",
    [indent |-> 9, text |-> "# Terminate when marker impacts wall"],
    "1">>,
  <<"ENDCOND_MAXORBS",
    [indent |-> 9, text |-> "# Terminate when marker has completed user-specified number of orbits"],
    "0">>,
  <<"ENDCOND_MAX_SIM_TIME",
    [indent |-> 9, text |-> "# Maximum simulation time [s]"],
    "1">>,
  <<"ENDCOND_MAX_CPU_TIME",
    [indent |-> 9, text |-> "# Maximum cpu time [s]"],
    "3600">>,
  <<"ENDCOND_MAX_RHO",
    [indent |-> 9, text |-> "# Maximum rho value"],
    "2">>,
  <<"ENDCOND_MIN_RHO",
    [indent |-> 9, text |-> "# Minimum rho value"],
    "0">>,
  <<"ENDCOND_MIN_ENERGY",
    [indent |-> 9, text |-> "# Minimum energy [eV]"],
    "1e3">>,
  <<"ENDCOND_MIN_ENERGY_TIMES_THERMAL",
    [indent |-> 9, text |-> "# Minimum energy limit local electron thermal energy times this value"],
    "2">>,
  <<"ENDCOND_MAX_TOROIDALORBS",
    [indent |-> 9, text |-> "# Maximum number of toroidal orbits"],
    "100">>,
  <<"ENDCOND_MAX_POLOIDALORBS",
    [indent |-> 9, text |-> "# Maximum number of poloidal orbits"],
    "100">>,
  <<[indent |-> 4, text |-> "#* PHYSICS *#"]>>,
  <<"ENABLE_ORBIT_FOLLOWING",
    [indent |-> 9, text |-> "# Trace markers in an electromagnetic field"],
    "1">>,
  <<"ENABLE_COULOMB_COLLISIONS",
    [indent |-> 9, text |-> "# Markers experience Coulomb collisions with background plasma"],
    "1">>,
  <<"DISABLE_FIRSTORDER_GCTRANS",
    [indent |-> 9, text |-> "# Disable first order guiding center transformation in velocity space"],
    "0">>,
  <<"DISABLE_ENERGY_CCOLL",
    [indent |-> 9, text |-> "# Disable guiding center energy collisions"],
    "0">>,
  <<"DISABLE_PITCH_CCOLL",
    [indent |-> 9, text |-> "# Disable guiding center pitch collisions"],
    "0">>,
  <<"DISABLE_GCDIFF_CCOLL",
    [indent |-> 9, text |-> "# Disable guiding center spatial diffusion"],
    "0">>,
  <<[indent |-> 4, text |-> "#* DISTRIBUTIONS *#"]>>,
  <<"ENABLE_DIST_5D",
    [indent |-> 9, text |-> "# Collect distribution histogram in [R, phi, z, vpa, vpe, t, q]"],
    "1">>,
  <<"ENABLE_DIST_6D",
    [indent |-> 9, text |-> "# Collect distribution histogram in [R, phi, z, vR, vphi, vz, t, q]"],
    "1">>,
  <<"ENABLE_DIST_rho5D",
    [indent |-> 9, text |-> "# Collect distribution histogram in [rho, pol, phi, vpa, vpe, t, q]"],
    "1">>,
  <<"ENABLE_DIST_rho6D",
    [indent |-> 9, text |-> "# Collect distribution histogram in [rho, pol, phi, vR, vphi, vz, t, q]"],
    "1">>,
  <<"DIST_MIN_R",
    [indent |-> 9, text |-> "# Minimum bin edge for major R coordinate [m]"],
    "0.1">>,
  <<"DIST_MAX_R",
    [indent |-> 9, text |-> "# Maximum bin edge for R coordinate [m]"],
    "10">>,
  <<"DIST_NBIN_R",
    [indent |-> 9, text |-> "# Number of bins the interval [DIST_MIN_R, DIST_MAX_R] is divided to"],
    "10">>,
  <<"DIST_MIN_phi",
    [indent |-> 9, text |-> "# Minimum bin edge for phi coordinate [deg]"],
    "0">>,
  <<"DIST_MAX_phi",
    [indent |-> 9, text |-> "# Maximum bin edge for phi coordinate [deg]"],
    "360">>,
  <<"DIST_NBIN_phi",
    [indent |-> 9, text |-> "# Number of bins the interval [DIST_MIN_phi, DIST_MAX_phi] is divided to"],
    "10">>,
  <<"DIST_MIN_z",
    [indent |-> 9, text |-> "# Minimum bin edge for z coordinate [m]"],
    "-5">>,
  <<"DIST_MAX_z",
    [indent |-> 9, text |-> "# Maximum bin edge for z coordinate [m]"],
    "5">>,
  <<"DIST_NBIN_z",
    [indent |-> 9, text |-> "# Number of bins the interval [DIST_MIN_z, DIST_MAX_z] is divided to"],
    "10">>,
  <<"DIST_MIN_rho",
    [indent |-> 9, text |-> "# Minimum bin edge for rho coordinate"],
    "0">>,
  <<"DIST_MAX_rho",
    [indent |-> 9, text |-> "# Maximum bin edge for rho coordinate"],
    "2">>,
  <<"DIST_NBIN_rho",
    [indent |-> 9, text |-> "# Number of bins the interval [DIST_MIN_rho, DIST_MAX_rho] is divided to"],
    "10">>,
  <<"DIST_MIN_pol",
    [indent |-> 9, text |-> "# Minimum bin edge for pol coordinate [deg]"],
    "0">>,
  <<"DIST_MAX_pol",
    [indent |-> 9, text |-> "# Maximum bin edge for pol coordinate [deg]"],
    "360">>,
  <<"DIST_NBIN_pol",
    [indent |-> 9, text |-> "# Number of bins the interval [DIST_MIN_pol, DIST_MAX_pol] is divided to"],
    "10">>,
  <<"DIST_MIN_vpa",
    [indent |-> 9, text |-> "# Minimum bin edge for vpa coordinate [m/s]"],
    "-3e8">>,
  <<"DIST_MAX_vpa",
    [indent |-> 9, text |-> "# Maximum bin edge for vpa coordinate [m/s]"],
    "3e8">>,
  <<"DIST_NBIN_vpa",
    [indent |-> 9, text |-> "# Number of bins the interval [DIST_MIN_vpa, DIST_MAX_vpa] is divided to"],
    "10">>,
  <<"DIST_MIN_vpe",
    [indent |-> 9, text |-> "# Minimum bin edge for vpe coordinate [m/s]"],
    "0">>,
  <<"DIST_MAX_vpe",
    [indent |-> 9, text |-> "# Maximum bin edge for vpe coordinate [m/s]"],
    "3e8">>,
  <<"DIST_NBIN_vpe",
    [indent |-> 9, text |-> "# Number of bins the interval [DIST_MIN_vpe, DIST_MAX_vpe] is divided to"],
    "10">>,
  <<"DIST_MIN_vR",
    [indent |-> 9, text |-> "# Minimum bin edge for vR coordinate [m/s]"],
    "0">>,
  <<"DIST_MAX_vR",
    [indent |-> 9, text |-> "# Maximum bin edge for vR coordinate [m/s]"],
    "3e8">>,
  <<"DIST_NBIN_vR",
    [indent |-> 9, text |-> "# Number of bins the interval [DIST_MIN_vR, DIST_MAX_vR] is divided to"],
    "10">>,
  <<"DIST_MIN_vphi",
    [indent |-> 9, text |-> "# Minimum bin edge for vphi coordinate [m/s]"],
    "0">>,
  <<"DIST_MAX_vphi",
    [indent |-> 9, text |-> "# Maximum bin edge for vphi coordinate [m/s]"],
    "3e8">>,
  <<"DIST_NBIN_vphi",
    [indent |-> 9, text |-> "# Number of bins the interval [DIST_MIN_vphi, DIST_MAX_vphi] is divided to"],
    "10">>,
  <<"DIST_MIN_vz",
    [indent |-> 9, text |-> "# Minimum bin edge for vz coordinate [m/s]"],
    "0">>,
  <<"DIST_MAX_vz",
    [indent |-> 9, text |-> "# Maximum bin edge for vz coordinate [m/s]"],
    "3e8">>,
  <<"DIST_NBIN_vz",
    [indent |-> 9, text |-> "# Number of bins the interval [DIST_MIN_vz, DIST_MAX_vz] is divided to"],
    "10">>,
  <<"DIST_MIN_t",
    [indent |-> 9, text |-> "# Minimum bin edge for t coordinate [s]"],
    "0">>,
  <<"DIST_MAX_t",
    [indent |-> 9, text |-> "# Maximum bin edge for t coordinate [s]"],
    "1">>,
  <<"DIST_NBIN_t",
    [indent |-> 9, text |-> "# Number of bins the interval [DIST_MIN_t, DIST_MAX_t] is divided to"],
    "1">>,
  <<"DIST_MIN_q",
    [indent |-> 9, text |-> "# Minimum bin edge for q coordinate [e]"],
    "-100">>,
  <<"DIST_MAX_q",
    [indent |-> 9, text |-> "# Maximum bin edge for q coordinate [e]"],
    "100">>,
  <<"DIST_NBIN_q",
    [indent |-> 9, text |-> "# Number of bins the interval [DIST_MIN_q, DIST_MAX_q] is divided to"],
    "1">>,
  <<[indent |-> 4, text |-> "#* ORBIT WRITE *#"]>>,
  <<"ENABLE_ORBITWRITE",
    [indent |-> 9, text |-> "# Enable diagnostics that store marker orbit"],
    "1">>,
  <<"ORBITWRITE_MODE",
    [indent |-> 9, text |-> "# What kind of marker orbit diagnostics are collected"],
    "1">>,
  <<"ORBITWRITE_MAXPOINTS",
    [indent |-> 9, text |-> "# Maximum number of points (per marker) to be written"],
    "10">>,
  <<"ORBITWRITE_TOROIDALANGLES",
    [indent |-> 9, text |-> "# Poloidal angles of toroidal planes where toroidal plots are collected"],
    "[0, 180]">>,
  <<"ORBITWRITE_POLOIDALANGLES",
    [indent |-> 9, text |-> "# Toroidal angles of poloidal planes where poloidal plots are collected"],
    "[0, 180]">>,
  <<"ORBITWRITE_INTERVAL",
    [indent |-> 9, text |-> "# Time interval for writing marker state [s]"],
    "1e-8">>
>>

\* textwrap.dedent: the text without its indentation
dedent(t) == t.text

\* get_default(): the cleaned list
get_default ==
  [j \in 1..Len(DefaultInfo) |->
     LET namecmtval == DefaultInfo[j]
     IN  IF Len(namecmtval) = 1 THEN <<dedent(namecmtval[1])>>
         ELSE <<namecmtval[1], dedent(namecmtval[2]), namecmtval[3]>>]

Range(q) == {q[j] : j \in 1..Len(q)}

\* Python values: a number, a list of numbers, a list of lists of numbers, a
\* string, an array
PyNum(v)     == [kind |-> "num",     val |-> v]
PyList(l)    == [kind |-> "list",    val |-> l]
PyNested(l)  == [kind |-> "nested",  val |-> l]
PyStr(t)     == [kind |-> "str",     val |-> t]
PyArray(a)   == [kind |-> "ndarray", val |-> a]

RECURSIVE Concat(_)
Concat(rows) == IF rows = <<>> THEN <<>> ELSE Head(rows) \o Concat(Tail(rows))

\* np.array(data)
np_array(v) ==
  CASE v.kind = "num"     -> [dtype |-> "num", shape |-> <<>>, data |-> <<v.val>>]
    [] v.kind = "list"    -> [dtype |-> "num", shape |-> <<Len(v.val)>>,
                              data |-> v.val]
    [] v.kind = "nested"  -> [dtype |-> "num",
                              shape |-> <<Len(v.val), Len(v.val[1])>>,
                              data |-> Concat(v.val)]
    [] v.kind = "str"     -> [dtype |-> "str", shape |-> <<>>, data |-> <<v.val>>]
    [] v.kind = "ndarray" -> [dtype |-> "num", shape |-> v.val.shape,
                              data |-> v.val.data]

\* the names write_hdf5 and read_hdf5 treat as metadata
OptMetadata == {"qid", "date", "description"}

\* the keys of the sample dictionaries, in alphabetical order (the order in
\* which h5py lists the datasets of a group)
OptKeys ==
  <<"ENABLE_ADAPTIVE", "NEW_PARAM", "ORBITWRITE_POLOIDALANGLES", "SIM_MODE",
    "TAG", "USER_PARAM">>

\* the value a sample dictionary holds under a key; the text under TAG is not
\* the text of a number
OptSample(key) ==
  CASE key = "ENABLE_ADAPTIVE"           -> PyNum(0)
    [] key = "NEW_PARAM"                 -> PyNested(<< <<2, 4>>, <<6, 9>> >>)
    [] key = "ORBITWRITE_POLOIDALANGLES" -> PyList(<<0, 181>>)
    [] key = "SIM_MODE"                  -> PyNum(4)
    [] key = "TAG"                       -> PyStr("abc")
    [] key = "USER_PARAM"                -> PyNum(-3)

\* a dictionary: its items (key, value) in the order of insertion
Dict(items) == [fmt |-> "dict", items |-> items]

\* a list, the format of get_default()
List(items) == [fmt |-> "list", items |-> items]

\* the sample dictionaries: at most MaxKeys keys, inserted in alphabetical
\* order or in the reverse of it
OptDicts ==
  LET keysets == {S \in SUBSET Range(OptKeys) : Cardinality(S) <= MaxKeys}
      asc(S)  == SelectSeq(OptKeys, LAMBDA k : k \in S)
      items(q) == [j \in 1..Len(q) |-> <<q[j], OptSample(q[j])>>]
  IN  {Dict(items(asc(S))) : S \in keysets} \cup
      {Dict(items(Reverse(asc(S)))) : S \in keysets}

\* add_group(f, parent, group, desc) of ascot5file: a new, empty group named
\* <group>-<qid> under parent, with its date and description
ascot5file_add_group(f, parent, group, desc, qid) ==
  LET name == <<group, "-", qid>>
      g    == [attrs |-> [date |-> "date",
                          description |-> IF desc = "None" THEN "No description."
                                          ELSE desc],
               dsets |-> NoGroups]
  IN  [file |-> [f EXCEPT !.groups = (<<parent, name>> :> g) @@ @],
       name |-> <<parent, name>>]

\* "for opt in options": the keys of a dictionary, the elements of a list
Iterate(options) ==
  IF options.fmt = "dict"
    THEN [j \in 1..Len(options.items) |-> options.items[j][1]]
    ELSE options.items

\* options[opt]: the value under a key of a dictionary; a list takes integers
\* only
Subscript(options, opt) ==
  IF options.fmt = "dict"
    THEN [status |-> "ok",
          value  |-> (CHOOSE it \in Range(options.items) : it[1] = opt)[2]]
    ELSE [status |-> "TypeError",
          msg    |-> "list indices must be integers or slices, not tuple"]

\* opt != "qid" and opt != "date" and opt != "description" for the first name
\* only
options_is_option_qid_only(opt) == opt # "qid"

\* opt != "qid" and opt != "date" and opt != "description"
options_is_option(opt) == opt \notin OptMetadata

\* the dataset written with an integer type
options_dataset_as_integer(f, p, opt, data) ==
  create_dataset(f, p, opt, <<Prod(data.shape)>>, data, "i4")

\* data = data.astype("f8"); g.create_dataset(opt, (data.size,), data=data)
options_dataset(f, p, opt, data) ==
  create_dataset(f, p, opt, <<Prod(data.shape)>>, data, "f8")

\* the loop "for opt in options" of write_hdf5 from element j on: every
\* option is converted to an array of floats and written as a dataset with
\* data.size elements; a value that cannot be converted raises, and the
\* datasets written before it stay
RECURSIVE options_write_loop(_, _, _, _)
options_write_loop(f, p, options, j) ==
  IF j > Len(Iterate(options))
    THEN [file |-> f, ret |-> [status |-> "ok", value |-> p]]
  ELSE
    LET opt == Iterate(options)[j]
    IN  IF ~options_is_option(opt)
          THEN options_write_loop(f, p, options, j + 1)
        ELSE
          LET got == Subscript(options, opt)
          IN  IF got.status # "ok" THEN Raise(f, got.status, got.msg)
              ELSE
                LET data == np_array(got.value)
                IN  IF data.dtype = "str"
                      THEN Raise(f, "ValueError",
                                 "could not convert string to float")
                      ELSE options_write_loop(options_dataset(f, p, opt, data),
                                              p, options, j + 1)

\* options.write_hdf5; qid is the identifier add_group draws
options_write_hdf5(f, options, desc, qid) ==
  LET g == ascot5file_add_group(h5_open_append(f), "options", "opt", desc, qid)
  IN  options_write_loop(g.file, g.name, options, 1)

\* "for opt in f[path]": the names of the datasets in alphabetical order
h5_iterate(dsets) == SelectSeq(OptKeys, LAMBDA k : k \in DOMAIN dsets)

\* the part of read_hdf5 that reads the file: the dictionary out
options_read_out(f, qid) ==
  LET path == <<"options", <<"opt", "-", qid>> >>
  IN  IF ~f.exists THEN [status |-> "OSError", msg |-> "no such file"]
      ELSE IF path \notin DOMAIN f.groups
        THEN [status |-> "KeyError", msg |-> "no such group"]
      ELSE
        LET g     == f.groups[path]
            names == h5_iterate(g.dsets)
        IN  [status |-> "ok",
             value  |-> Dict(<< <<"qid", PyStr(qid)>>,
                               <<"date", PyStr(g.attrs.date)>>,
                               <<"description", PyStr(g.attrs.description)>> >>
                             \o [j \in 1..Len(names) |->
                                   <<names[j],
                                     PyArray(ReadDataset(g.dsets[names[j]]))>>])]

\* the inner loop "for namecmtval in defopt" of the parsing: every banner
\* before the entry of the parameter (every banner, for a name defopt does not
\* define) that is not yet in info is appended to it, and the comment of the
\* entry is taken
options_info_scan(info, name, defopt) ==
  LET at   == {j \in 1..Len(defopt) :
                 Len(defopt[j]) # 1 /\ name = defopt[j][1]}
      stop == IF at = {} THEN Len(defopt) + 1
              ELSE CHOOSE j \in at : \A m \in at : j <= m
      seen == SelectSeq(SubSeq(defopt, 1, stop - 1),
                        LAMBDA e : Len(e) = 1 /\ <<e[1]>> \notin Range(info))
  IN  [info |-> info \o [j \in 1..Len(seen) |-> <<seen[j][1]>>],
       cmt  |-> IF at = {} THEN "Unknown parameter" ELSE defopt[stop][2]]

\* the loop "for name in out" of the parsing, from item k on
RECURSIVE options_info_parse(_, _, _, _)
options_info_parse(info, items, defopt, k) ==
  IF k > Len(items) THEN info
  ELSE
    LET name == items[k][1]
    IN  IF name \in {"qid", "date", "description"}
          THEN options_info_parse(info, items, defopt, k + 1)
        ELSE
          LET val  == items[k][2]
              scan == options_info_scan(info, name, defopt)
          IN  options_info_parse(Append(scan.info, <<name, scan.cmt, val>>),
                                 items, defopt, k + 1)

\* info[i] = namecmtval; i = i + 1
SetItem(st, namecmtval) ==
  IF st.i >= Len(st.info) THEN [st EXCEPT !.status = "IndexError"]
  ELSE [st EXCEPT !.info[st.i + 1] = namecmtval, !.i = st.i + 1]

\* the first sorting loop: for every entry of defopt, in order, the first
\* entry of unsorted with its name (or banner) is placed next in info
options_sort_loop(st, unsorted, defopt) ==
  LET hit(o)  == {k \in 1..Len(unsorted) : o[1] = unsorted[k][1]}
      found   == SelectSeq(defopt, LAMBDA o : hit(o) # {})
      placed  == [j \in 1..Len(found) |->
                    unsorted[CHOOSE k \in hit(found[j]) :
                               \A m \in hit(found[j]) : k <= m]]
  IN  IF Len(placed) > Len(st.info) - st.i
        THEN [st EXCEPT !.status = "IndexError"]
        ELSE [st EXCEPT
                !.info = SubSeq(st.info, 1, st.i) \o placed
                         \o SubSeq(st.info, st.i + Len(placed) + 1, Len(st.info)),
                !.i = st.i + Len(placed)]

\* the banners and known parameters left in the order of unsorted
options_sort_known_file_order(st, unsorted, defopt) ==
  LET names == {defopt[j][1] : j \in 1..Len(defopt)}
      kept  == SelectSeq(unsorted, LAMBDA e : e[1] \in names)
  IN  [st EXCEPT !.info = kept \o SubSeq(st.info, Len(kept) + 1, Len(st.info)),
                 !.i = Len(kept)]

\* "for opt in defopt: for namecmtval in unsorted: ..."
options_sort_known(st, unsorted, defopt) ==
  options_sort_loop(st, unsorted, defopt)

\* the second sorting loop, from entry k of unsorted on
RECURSIVE options_unknown_loop(_, _, _)
options_unknown_loop(st, unsorted, k) ==
  IF k > Len(unsorted) \/ st.status # "ok" THEN st
  ELSE
    LET namecmtval == unsorted[k]
    IN  IF Len(namecmtval) > 1 /\ namecmtval[2] = "Unknown parameter"
          THEN options_unknown_loop(SetItem(st, namecmtval), unsorted, k + 1)
          ELSE options_unknown_loop(st, unsorted, k + 1)

\* the sorting without its second loop
options_sort_unknown_skipped(st, unsorted) == st

\* "for namecmtval in unsorted: if ... "Unknown parameter" ..."
options_sort_unknown(st, unsorted) == options_unknown_loop(st, unsorted, 1)

\* the parsing and sorting of read_hdf5 with info=True
options_info(out) ==
  LET defopt   == get_default
      info     == options_info_parse(<<>>, out.items, defopt, 1)
      unsorted == info
      st0      == [info |-> info, i |-> 0, status |-> "ok"]
      st1      == options_sort_known(st0, unsorted, defopt)
  IN  options_sort_unknown(st1, unsorted)

\* options.read_hdf5(fn, qid, info): out, or (out, info)
options_read_hdf5(f, qid, info) ==
  LET o == options_read_out(f, qid)
  IN  IF o.status # "ok" \/ ~info THEN o
      ELSE LET st == options_info(o.value)
           IN  IF st.status # "ok"
                 THEN [status |-> st.status, msg |-> "list assignment index out of range"]
                 ELSE [status |-> "ok", value |-> <<o.value, st.info>>]

\* the option groups of the file, by their identifier
OptQids(f) == {p[2][3] : p \in {x \in DOMAIN f.groups : x[1] = "options"}}

\* what a caller passes as options: a sample dictionary, the list
\* get_default() returns, or the dictionary read_hdf5 returns for a group of
\* the file
OptInputs(f) ==
  {[from |-> "sample", options |-> d] : d \in OptDicts}
  \cup {[from |-> "get_default", options |-> List(get_default)]}
  \cup {[from |-> "read_hdf5", options |-> options_read_hdf5(f, q, FALSE).value] :
          q \in OptQids(f)}

Opt_write ==
  /\ Idle
  /\ \E in \in OptInputs(file), desc \in Descs, qid \in FreshQids(file) :
       LET r == options_write_hdf5(file, in.options, desc, qid)
       IN  /\ call' = [op |-> "Opt_write", options |-> in.options,
                       from |-> in.from, desc |-> desc]
           /\ file' = r.file
           /\ ret'  = r.ret

Opt_read ==
  /\ Idle
  /\ \E qid \in Qids, info \in BOOLEAN :
       /\ call' = [op |-> "Opt_read", qid |-> qid, info |-> info]
       /\ ret'  = options_read_hdf5(file, qid, info)
       /\ UNCHANGED file

(***************************************************************************)
(* ascot4interface/erad: the reader of radial profile tables.  The numbers  *)
(* of a table are whole; a number computed from them is a fraction          *)
(* <<numerator, denominator>> with a positive denominator.                  *)
(***************************************************************************)
Frac(v) == <<v, 1>>

FracSub(a, b) == <<a[1] * b[2] - b[1] * a[2], a[2] * b[2]>>

FracLess(a, b) == a[1] * b[2] < b[1] * a[2]

FracEq(a, b) == a[1] * b[2] = b[1] * a[2]

\* the builds of numpy: np.linspace takes num with operator.index (1.18 and
\* later), or falls back on int(num) with a warning (before 1.18)
NumpyBuilds == {"index", "int"}

\* the text of a whole number, and int(text)
PyText(n) == ToString(n)

PyInt(text) ==
  IF \E n \in 0..(MaxRows + 1) : PyText(n) = text
    THEN [status |-> "ok",
          value  |-> CHOOSE n \in 0..(MaxRows + 1) : PyText(n) = text]
    ELSE [status |-> "ValueError", msg |-> "invalid literal for int()"]

\* the tables: a comment line, a line with the number of rows as text, and
\* one to MaxRows rows "rho dV_drho" with rho in 0..MaxRho in any order
EradTables ==
  {[comm1 |-> "# dV/drho", header |-> <<PyText(n)>>,
    rows  |-> [k \in 1..Len(rho) |-> <<rho[k], k * k>>]] :
     n \in 1..MaxRows,
     rho \in UNION {[1..len -> 0..MaxRho] : len \in 1..MaxRows}}

\* np.diff of an array of whole numbers
np_diff(x) == [k \in 1..(Len(x) - 1) |-> x[k + 1] - x[k]]

SeqMax(x) == CHOOSE v \in Range(x) : \A w \in Range(x) : w <= v

SeqMin(x) == CHOOSE v \in Range(x) : \A w \in Range(x) : v <= w

\* tol = 1.0001 as a fraction
tol == <<10001, 10000>>

\* max(diff)/min(diff) > tol in floating point: a division by zero gives inf
\* for a positive numerator and nan for zero, and nan > tol is false
erad_exceeds(mx, mn) ==
  IF mn = 0 THEN mx > 0
  ELSE IF mn > 0 THEN mx * tol[2] > tol[1] * mn
  ELSE mx * tol[2] < tol[1] * mn

\* np.linspace(start, stop, num) with num a whole number: num points from
\* start to stop, the end point included
np_linspace(start, stop, num) ==
  IF num = 1 THEN <<Frac(start)>>
  ELSE [q \in 1..num |->
          <<start * (num - 1) + (q - 1) * (stop - start), num - 1>>]

\* np.interp(x, xp, fp) at one point x of the range of xp, xp not decreasing:
\* linear between the last xp[j] <= x and xp[j + 1]
np_interp_at(x, xp, fp) ==
  LET j == CHOOSE m \in 1..Len(xp) :
             /\ ~FracLess(x, Frac(xp[m]))
             /\ \A o \in (m + 1)..Len(xp) : FracLess(x, Frac(xp[o]))
  IN  IF j = Len(xp) \/ FracEq(x, Frac(xp[j])) THEN Frac(fp[j])
      ELSE LET dx == xp[j + 1] - xp[j]
           IN  <<fp[j] * x[2] * dx + (fp[j + 1] - fp[j]) * (x[1] - xp[j] * x[2]),
                 x[2] * dx>>

np_interp(x, xp, fp) == [q \in 1..Len(x) |-> np_interp_at(x[q], xp, fp)]

\* the call np.linspace(np.amin(rho), np.amax(rho), data['n_rho']), where
\* data['n_rho'] is the text read from the file
erad_linspace(rho, n_rho, numpy) ==
  IF numpy = "index"
    THEN [status |-> "TypeError",
          msg    |-> "'str' object cannot be interpreted as an integer"]
  ELSE IF PyInt(n_rho).status # "ok" THEN PyInt(n_rho)
  ELSE [status |-> "ok",
        value  |-> np_linspace(SeqMin(rho), SeqMax(rho), PyInt(n_rho).value)]

\* read_erad(fn) on the table t: the dictionary returned, or the error raised
read_erad(t, numpy) ==
  IF t.header = <<>>
    THEN [status |-> "IndexError", msg |-> "list index out of range"]
  ELSE IF Len(t.rows) < 2
    THEN [status |-> "IndexError", msg |-> "too many indices for array"]
  ELSE
    LET n_rho   == t.header[1]
        rho     == [k \in 1..Len(t.rows) |-> t.rows[k][1]]
        dV_drho == [k \in 1..Len(t.rows) |-> t.rows[k][2]]
        diff    == np_diff(rho)
        data    == [comm1 |-> t.comm1, n_rho |-> n_rho,
                    rho     |-> [k \in 1..Len(rho) |-> Frac(rho[k])],
                    dV_drho |-> [k \in 1..Len(rho) |-> Frac(dV_drho[k])]]
    IN  IF ~erad_exceeds(SeqMax(diff), SeqMin(diff))
          THEN [status |-> "ok", value |-> data]
        ELSE
          LET new_rho == erad_linspace(rho, n_rho, numpy)
          IN  IF new_rho.status # "ok" THEN new_rho
              ELSE [status |-> "ok",
                    value  |-> [data EXCEPT
                                 !.dV_drho = np_interp(new_rho.value, rho,
                                                       dV_drho),
                                 !.rho = new_rho.value]]

Erad_read ==
  /\ Idle
  /\ \E t \in EradTables, numpy \in NumpyBuilds :
       /\ call' = [op |-> "read_erad", table |-> t, numpy |-> numpy]
       /\ ret'  = read_erad(t, numpy)
       /\ UNCHANGED file

Init ==
  /\ file = NoFile
  /\ call = [op |-> "none"]
  /\ ret  = [status |-> "none"]

NextE == E_write \/ E_read \/ Return

SpecE == Init /\ [][NextE]_vars

NextMrk == Mrk_write \/ Mrk_read \/ Return

SpecMrk == Init /\ [][NextMrk]_vars

NextOpt == Opt_write \/ Opt_read \/ Return

SpecOpt == Init /\ [][NextOpt]_vars

\* the field and marker inputs on one file
NextIn == E_write \/ E_read \/ Mrk_write \/ Mrk_read \/ Return

SpecIn == Init /\ [][NextIn]_vars

\* all three inputs on one file
Next ==
  \/ E_write \/ E_read
  \/ Mrk_write \/ Mrk_read
  \/ Opt_write \/ Opt_read
  \/ Return

Spec == Init /\ [][Next]_vars

\* all three inputs on one file, a rejected field or marker call being one
\* whose last array alone has a wrong shape or size
NextFrame ==
  \/ E_call({{}, {"ez"}})
  \/ E_read
  \/ Mrk_call({{}, {"time"}})
  \/ Mrk_read
  \/ Opt_write
  \/ Opt_read
  \/ Return

SpecFrame == Init /\ [][NextFrame]_vars

\* the reader of radial profile tables
NextErad == Erad_read \/ Return

SpecErad == Init /\ [][NextErad]_vars

(***************************************************************************)
(* Properties.                                                             *)
(***************************************************************************)
\* the grid a field call declares
Declared(a) == <<a.nr, a.nphi, a.nz>>

\* the field components whose shape is not the declared one
EMismatched(a) ==
  {c \in {"er", "ephi", "ez"} : a[c].shape # Declared(a)}

\* C1: E_3DS.write_hdf5 raises ValueError whenever at least one of er, ephi, ez
\* has a shape different from (nr, nphi, nz), and raises no validation error
\* when all three have exactly that shape.
C1_ShapeValidation ==
  call.op = "E_write" =>
    IF EMismatched(call.args) = {} THEN ret.status = "ok"
    ELSE ret.status = "ValueError"

\* a call rejected for ez alone, which has the declared number of elements in
\* another shape
C1_Witness ==
  /\ call.op = "E_write"
  /\ EMismatched(call.args) = {"ez"}
  /\ Size(call.args.ez) = call.args.nr * call.args.nphi * call.args.nz
  /\ ret.status = "ValueError"

\* the message write_hdf5 documents for each marker array
MrkMessage(fld) ==
  CASE fld = "ids"    -> "Inconsistent size for ids."
    [] fld = "mass"   -> "Inconsistent size for mass."
    [] fld = "charge" -> "Inconsistent size for charge."
    [] fld = "r"      -> "Inconsistent size for r."
    [] fld = "phi"    -> "Inconsistent size for phi."
    [] fld = "z"      -> "Inconsistent size for z."
    [] fld = "vr"     -> "Inconsistent size for vR."
    [] fld = "vphi"   -> "Inconsistent size for vphi."
    [] fld = "vz"     -> "Inconsistent size for vz."
    [] fld = "anum"   -> "Inconsistent size for anum."
    [] fld = "znum"   -> "Inconsistent size for znum."
    [] fld = "weight" -> "Inconsistent size for weight."
    [] fld = "time"   -> "Inconsistent size for time."

\* the positions, in the order of MrkFields, of the arrays whose number of
\* elements is not n
MrkMismatched(a) ==
  {i \in 1..Len(MrkFields) : Len(a[MrkFields[i]].data) # a.n}

Min(S) == CHOOSE x \in S : \A y \in S : x <= y

\* C2: mrk_prt.write_hdf5 raises ValueError whenever at least one of the 13
\* arrays has a number of elements different from n; the error is the one for
\* the first mismatching array in the order ids, mass, charge, r, phi, z, vr,
\* vphi, vz, anum, znum, weight, time; no validation error is raised when all
\* 13 sizes equal n.
C2_SizeValidation ==
  call.op = "Mrk_write" =>
    IF MrkMismatched(call.args) = {} THEN ret.status = "ok"
    ELSE /\ ret.status = "ValueError"
         /\ ret.msg = MrkMessage(MrkFields[Min(MrkMismatched(call.args))])

\* a call with two mismatching arrays, mass and znum, rejected for mass
C2_Witness ==
  /\ call.op = "Mrk_write"
  /\ MrkMismatched(call.args) = {2, 11}
  /\ ret.status = "ValueError"
  /\ ret.msg = "Inconsistent size for mass."

\* the call that ended was a write_hdf5 of a field or of markers that raised
\* the ValueError of its validation
Rejected(c, r) ==
  /\ c.op \in {"E_write", "Mrk_write"}
  /\ r.status = "ValueError"

\* C3: when E_3DS.write_hdf5 or mrk_prt.write_hdf5 rejects its input with a
\* shape/size ValueError, the file is left exactly as it was before the call:
\* it is not opened or created, no group is added and no dataset is written.
C3_RejectLeavesFile ==
  [][Rejected(call', ret') => file' = file]_vars

\* a field call and a marker call are rejected: here a marker call, on a file
\* that holds a field group already
C3_Witness ==
  /\ Rejected(call, ret)
  /\ call.op = "Mrk_write"
  /\ \E p \in DOMAIN file.groups : p[1] = "efield"

\* the identifier in the name "<type>_<qid>" a write returned
QidOf(name) == name[3]

\* C4: for every er, ephi, ez of shape (nr, nphi, nz) accepted by
\* E_3DS.write_hdf5, E_3DS.read_hdf5 of the group that was written returns er,
\* ephi and ez with shape (nr, nphi, nz) and with every element equal to the
\* element written at the same index (i, j, k).
C4_FieldRoundTrip ==
  (call.op = "E_write" /\ ret.status = "ok") =>
    LET a == call.args
        r == E_3DS_read_hdf5(file, QidOf(ret.value))
    IN  /\ r.status = "ok"
        /\ \A c \in {"er", "ephi", "ez"} :
             /\ r.value[c].shape = Declared(a)
             /\ \A i \in 0..(a.nr - 1), j \in 0..(a.nphi - 1), k \in 0..(a.nz - 1) :
                  At(r.value[c], <<i, j, k>>) = At(a[c], <<i, j, k>>)

\* a field on a grid with nr # nz was written, and the stored elements are in
\* another order than the elements passed
C4_Witness ==
  /\ call.op = "E_write"
  /\ ret.status = "ok"
  /\ call.args.nr # call.args.nz
  /\ call.args.nphi > 1
  /\ file.groups[<<"efield", ret.value>>].dsets["er"].data # call.args.er.data

\* the datasets of a marker group and the argument each is written from
MrkDatasets ==
  [r |-> "r", phi |-> "phi", z |-> "z", vr |-> "vr", vphi |-> "vphi",
   vz |-> "vz", mass |-> "mass", charge |-> "charge", anum |-> "anum",
   znum |-> "znum", weight |-> "weight", time |-> "time", id |-> "ids"]

\* the datasets of a marker group stored as integers
MrkIntegerDatasets == {"charge", "anum", "znum", "id"}

\* a number (in halves) without a fraction
Whole(v) == v % 2 = 0

\* w is v with its fraction dropped
Truncated(v, w) ==
  IF Whole(v) THEN w = v
  ELSE IF v > 0 THEN w = v - 1 ELSE w = v + 1

\* the group the marker call that ended has written
MrkGroup == file.groups[<<"marker", ret.value>>]

\* reading the written group returns every array as it was passed
MrkReadsBack ==
  LET a == call.args
      r == mrk_prt_read_hdf5(file, QidOf(ret.value))
  IN  /\ r.status = "ok"
      /\ DOMAIN r.value = MrkFieldSet \cup {"n"}
      /\ r.value["n"].data = <<2 * a.n>>
      /\ \A fld \in MrkFieldSet : r.value[fld].data = a[fld].data

\* C5 as stated: for every marker input accepted by mrk_prt.write_hdf5, each
\* dataset of the written group holds exactly the values that were passed for
\* it, so that reading the group back reproduces the original arrays,
\* including charge, anum, znum (32-bit integers) and ids (64-bit integers).
C5_AsStated ==
  (call.op = "Mrk_write" /\ ret.status = "ok") =>
    /\ MrkGroup.dsets["n"].data = <<2 * call.args.n>>
    /\ \A d \in DOMAIN MrkDatasets :
         MrkGroup.dsets[d].data = call.args[MrkDatasets[d]].data
    /\ MrkReadsBack

\* C5 amended: for every accepted marker input the group holds the fourteen
\* datasets; n and the float datasets hold exactly the values passed; charge,
\* anum, znum and id hold the values passed with the fraction dropped; when
\* the values passed for these four are whole numbers, every dataset holds
\* exactly the values passed and reading the group back returns them.
C5_MarkerRoundTrip ==
  (call.op = "Mrk_write" /\ ret.status = "ok") =>
    LET a == call.args
    IN  /\ DOMAIN MrkGroup.dsets = DOMAIN MrkDatasets \cup {"n"}
        /\ MrkGroup.dsets["n"].data = <<2 * a.n>>
        /\ \A d \in DOMAIN MrkDatasets :
             LET passed == a[MrkDatasets[d]].data
                 stored == MrkGroup.dsets[d].data
             IN  /\ MrkGroup.dsets[d].shape = <<a.n, 1>>
                 /\ Len(stored) = a.n
                 /\ \A q \in 1..a.n :
                      IF d \in MrkIntegerDatasets
                        THEN Truncated(passed[q], stored[q])
                        ELSE stored[q] = passed[q]
        /\ (\A d \in MrkIntegerDatasets :
              \A q \in 1..a.n : Whole(a[MrkDatasets[d]].data[q]))
             => MrkReadsBack

\* markers with whole numbers, among them a negative charge, were written
C5_Witness ==
  /\ call.op = "Mrk_write"
  /\ ret.status = "ok"
  /\ call.args.n > 1
  /\ \A d \in MrkIntegerDatasets :
       \A q \in 1..call.args.n : Whole(call.args[MrkDatasets[d]].data[q])
  /\ call.args.charge.data[1] < 0
  /\ MrkReadsBack

\* the elements of a value passed as an option, in order
OptElements(v) ==
  CASE v.kind = "num"     -> <<v.val>>
    [] v.kind = "list"    -> v.val
    [] v.kind = "nested"  -> [q \in 1..(Len(v.val) * Len(v.val[1])) |->
                                v.val[((q - 1) \div Len(v.val[1])) + 1]
                                     [((q - 1) % Len(v.val[1])) + 1]]
    [] v.kind = "ndarray" -> v.val.data

\* the items of a dictionary that are options
OptionItems(d) == {it \in Range(d.items) : it[1] \notin OptMetadata}

\* the identifier in the path write_hdf5 of options returned
OptQidOf(path) == path[2][3]

\* C6: for every options dictionary written by options.write_hdf5,
\* options.read_hdf5 of the written group returns, for every key other than
\* qid, date and description, the values that were written under that key (as
\* a one-dimensional array with as many elements as the written value), and
\* returns no option key that was not written.
C6_OptionsRoundTrip ==
  (call.op = "Opt_write" /\ ret.status = "ok") =>
    LET r == options_read_hdf5(file, OptQidOf(ret.value), FALSE)
    IN  /\ r.status = "ok"
        /\ {it[1] : it \in OptionItems(r.value)}
             = {it[1] : it \in OptionItems(call.options)}
        /\ \A w \in OptionItems(call.options) :
             \E g \in OptionItems(r.value) :
               /\ g[1] = w[1]
               /\ g[2].kind = "ndarray"
               /\ g[2].val.shape = <<Len(OptElements(w[2]))>>
               /\ g[2].val.data = OptElements(w[2])

\* a dictionary with a number, a list with a fraction and a list of lists was
\* written
C6_Witness ==
  /\ call.op = "Opt_write"
  /\ call.from = "sample"
  /\ ret.status = "ok"
  /\ {it[1] : it \in Range(call.options.items)}
       = {"NEW_PARAM", "ORBITWRITE_POLOIDALANGLES", "SIM_MODE"}

\* C7: the dictionary returned by options.read_hdf5 (info=False) is accepted
\* unchanged by options.write_hdf5: qid, date and description are skipped and
\* never become datasets, every other key is written as a dataset, and reading
\* the new group returns the same option keys with the same values as the
\* dictionary that was passed in.
C7_ReadWriteRead ==
  (call.op = "Opt_write" /\ call.from = "read_hdf5") =>
    /\ ret.status = "ok"
    /\ DOMAIN file.groups[ret.value].dsets
         = {it[1] : it \in OptionItems(call.options)}
    /\ DOMAIN file.groups[ret.value].dsets \cap OptMetadata = {}
    /\ LET r == options_read_hdf5(file, OptQidOf(ret.value), FALSE)
       IN  /\ r.status = "ok"
           /\ OptionItems(r.value) = OptionItems(call.options)

\* the dictionary read from a group with two options was written again
C7_Witness ==
  /\ call.op = "Opt_write"
  /\ call.from = "read_hdf5"
  /\ ret.status = "ok"
  /\ {"qid", "date", "description"}
       \subseteq {it[1] : it \in Range(call.options.items)}
  /\ Cardinality(OptionItems(call.options)) = 2

\* the parameters get_default defines, and where
DefNames == {get_default[j][1] : j \in {k \in 1..Len(get_default) :
                                           Len(get_default[k]) = 3}}

DefIndex(name) == CHOOSE j \in 1..Len(get_default) :
                    Len(get_default[j]) = 3 /\ get_default[j][1] = name

\* the positions of info that hold the given name
InfoAt(info, name) == {p \in 1..Len(info) : info[p][1] = name}

\* the call that ended was a read_hdf5 with info=True that returned
InfoRead == call.op = "Opt_read" /\ call.info /\ ret.status = "ok"

\* C8: with info=True, options.read_hdf5 returns an info list in which the
\* parameters that are defined in get_default appear in the same relative
\* order as in get_default, each as (name, comment, value) where the comment
\* is the one get_default gives for that name and the value is the one read
\* from the file.
C8_InfoKnownOrder ==
  InfoRead =>
    LET out   == ret.value[1]
        info  == ret.value[2]
        dsets == file.groups[<<"options", <<"opt", "-", call.qid>> >>].dsets
    IN  /\ \A name \in DOMAIN dsets \cap DefNames :
             /\ Cardinality(InfoAt(info, name)) = 1
             /\ \A p \in InfoAt(info, name) :
                  /\ Len(info[p]) = 3
                  /\ info[p][2] = get_default[DefIndex(name)][2]
                  /\ info[p][3] = PyArray(ReadDataset(dsets[name]))
        /\ \A p, q \in 1..Len(info) :
             (/\ p < q
              /\ info[p][1] \in DefNames
              /\ info[q][1] \in DefNames)
               => DefIndex(info[p][1]) < DefIndex(info[q][1])

\* the info of a group with three known parameters, listed by the file in
\* another order than by get_default, was read
C8_Witness ==
  /\ InfoRead
  /\ {it[1] : it \in OptionItems(ret.value[1])}
       = {"ENABLE_ADAPTIVE", "ORBITWRITE_POLOIDALANGLES", "SIM_MODE"}

\* C9: with info=True, every parameter read from the file whose name is not
\* defined in get_default appears in the info list with the comment "Unknown
\* parameter" and the value read from the file, and every such entry is placed
\* after all entries of known parameters and all banners.
C9_InfoUnknownLast ==
  InfoRead =>
    LET info  == ret.value[2]
        dsets == file.groups[<<"options", <<"opt", "-", call.qid>> >>].dsets
    IN  \A name \in DOMAIN dsets \ DefNames :
          /\ Cardinality(InfoAt(info, name)) = 1
          /\ \A p \in InfoAt(info, name) :
               /\ info[p] = <<name, "Unknown parameter",
                              PyArray(ReadDataset(dsets[name]))>>
               /\ \A q \in 1..Len(info) :
                    (Len(info[q]) = 1 \/ info[q][1] \in DefNames) => q < p

\* the info of a group with two unknown parameters and a known one, which the
\* file lists between them, was read
C9_Witness ==
  /\ InfoRead
  /\ {it[1] : it \in OptionItems(ret.value[1])}
       = {"NEW_PARAM", "SIM_MODE", "USER_PARAM"}

\* C10: options.write_hdf5 accepts as its options argument a value in exactly
\* the format returned by get_default(), and writes one dataset for every
\* parameter that get_default defines.
C10_AcceptsDefault ==
  (call.op = "Opt_write" /\ call.from = "get_default") =>
    /\ ret.status = "ok"
    /\ DOMAIN file.groups[ret.value].dsets = DefNames

\* the type and the parent of the group a write of a field or of markers makes
TypeOf(op) == IF op = "E_write" THEN "E_3DS" ELSE "prt"

ParentOf(op) == IF op = "E_write" THEN "efield" ELSE "marker"

\* the field group g holds the grid and the three components of the call a
HoldsField(g, a) ==
  /\ DOMAIN g.dsets = {"rmin", "rmax", "nr", "phimin", "phimax", "nphi",
                       "zmin", "zmax", "nz", "er", "ephi", "ez"}
  /\ g.dsets["rmin"].data = <<a.rmin>> /\ g.dsets["rmax"].data = <<a.rmax>>
  /\ g.dsets["phimin"].data = <<a.phimin>>
  /\ g.dsets["phimax"].data = <<a.phimax>>
  /\ g.dsets["zmin"].data = <<a.zmin>> /\ g.dsets["zmax"].data = <<a.zmax>>
  /\ g.dsets["nr"].data = <<2 * a.nr>> /\ g.dsets["nphi"].data = <<2 * a.nphi>>
  /\ g.dsets["nz"].data = <<2 * a.nz>>
  /\ \A c \in {"er", "ephi", "ez"} :
       \A i \in 0..(a.nr - 1), j \in 0..(a.nphi - 1), k \in 0..(a.nz - 1) :
         At(ReadDataset(g.dsets[c]), <<k, j, i>>) = At(a[c], <<i, j, k>>)

\* the marker group g holds the arrays of the call a, those of an integer type
\* without their fraction
HoldsMarkers(g, a) ==
  /\ DOMAIN g.dsets = DOMAIN MrkDatasets \cup {"n"}
  /\ g.dsets["n"].data = <<2 * a.n>>
  /\ \A d \in DOMAIN MrkDatasets :
       /\ Len(g.dsets[d].data) = a.n
       /\ \A q \in 1..a.n :
            IF d \in MrkIntegerDatasets
              THEN Truncated(a[MrkDatasets[d]].data[q], g.dsets[d].data[q])
              ELSE g.dsets[d].data[q] = a[MrkDatasets[d]].data[q]

\* C11: a successful E_3DS.write_hdf5 or mrk_prt.write_hdf5 call returns the
\* name "<type>_<qid>" of the group it created, the last path component
\* without the parent path, and that name identifies the group under the
\* parent ("efield" or "marker") that holds the data just written: the group
\* of that name is the one group the call added, and it holds the call's data.
C11_ReturnsGroupName ==
  [][(call'.op \in {"E_write", "Mrk_write"} /\ ret'.status = "ok") =>
       /\ \E q \in Qids : ret'.value = <<TypeOf(call'.op), "_", q>>
       /\ <<ParentOf(call'.op), ret'.value>> \notin DOMAIN file.groups
       /\ DOMAIN file'.groups
            = DOMAIN file.groups \cup {<<ParentOf(call'.op), ret'.value>>}
       /\ LET g == file'.groups[<<ParentOf(call'.op), ret'.value>>]
          IN  IF call'.op = "E_write" THEN HoldsField(g, call'.args)
              ELSE HoldsMarkers(g, call'.args)]_vars

\* a second marker group was written: the name returned tells it from the
\* first one
C11_Witness ==
  /\ call.op = "Mrk_write"
  /\ ret.status = "ok"
  /\ ret.value = <<"prt", "_", QidOf(ret.value)>>
  /\ HoldsMarkers(file.groups[<<"marker", ret.value>>], call.args)
  /\ \E p \in DOMAIN file.groups :
       /\ p[1] = "marker"
       /\ p[2] # ret.value
       /\ ~HoldsMarkers(file.groups[p], call.args)

\* the consecutive spacings of a grid of fractions
Spacings(rho) == [k \in 1..(Len(rho) - 1) |-> FracSub(rho[k + 1], rho[k])]

FracAbs(a) == IF a[1] < 0 THEN <<-a[1], a[2]>> ELSE a

\* a grid is linearly spaced: its spacings have one sign, none is zero, and
\* the largest is at most 1.0001 times the smallest
LinearlySpaced(rho) ==
  LET d == Spacings(rho)
  IN  \A m, o \in 1..Len(d) :
        /\ d[m][1] # 0
        /\ (d[m][1] > 0) = (d[o][1] > 0)
        /\ FracAbs(d[m])[1] * FracAbs(d[o])[2] * tol[2]
             <= tol[1] * FracAbs(d[o])[1] * FracAbs(d[m])[2]

\* the rho column of the table of a call
TableRho(t) == [k \in 1..Len(t.rows) |-> t.rows[k][1]]

\* rho grows from each row of the table to the next
Increasing(t) ==
  \A k \in 1..(Len(t.rows) - 1) : TableRho(t)[k] < TableRho(t)[k + 1]

\* C12: read_erad makes sure the returned rho grid is linearly spaced: for
\* every input table (here: every table of two rows or more whose rho grows
\* from row to row), read_erad returns a rho with a ratio of largest to
\* smallest consecutive spacing of at most 1.0001, because any table that is
\* not linearly spaced is interpolated onto a uniform grid from the minimum
\* to the maximum rho.
C12_LinearlySpaced ==
  (/\ call.op = "read_erad"
   /\ Len(call.table.rows) >= 2
   /\ Increasing(call.table)) =>
    /\ ret.status = "ok"
    /\ LinearlySpaced(ret.value.rho)

\* C13: E_3DS.write_hdf5 stores each field component with the axis order
\* reversed: the stored datasets er, ephi, ez have shape (nz, nphi, nr) and
\* the stored element at index (k, j, i) equals the input element at index
\* (i, j, k), for every i < nr, j < nphi, k < nz.
C13_StoredReversed ==
  (call.op = "E_write" /\ ret.status = "ok") =>
    LET a == call.args
        d == file.groups[<<"efield", ret.value>>].dsets
    IN  \A c \in {"er", "ephi", "ez"} :
          /\ d[c].shape = <<a.nz, a.nphi, a.nr>>
          /\ Len(d[c].data) = a.nr * a.nphi * a.nz
          /\ \A i \in 0..(a.nr - 1), j \in 0..(a.nphi - 1), k \in 0..(a.nz - 1) :
               At(ReadDataset(d[c]), <<k, j, i>>) = At(a[c], <<i, j, k>>)

\* a field with more than one point along r and along z was written: the
\* stored elements of ez are not in the order in which they were passed
C13_Witness ==
  /\ call.op = "E_write"
  /\ ret.status = "ok"
  /\ call.args.nr > 1
  /\ call.args.nz > 1
  /\ LET d == file.groups[<<"efield", ret.value>>].dsets["ez"]
     IN  /\ d.shape = <<call.args.nz, call.args.nphi, call.args.nr>>
         /\ d.data # call.args.ez.data
         /\ At(ReadDataset(d), <<1, 0, 0>>) = At(call.args.ez, <<0, 0, 1>>)

ReadOps == {"E_read", "Mrk_read", "Opt_read"}

WriteOps == {"E_write", "Mrk_write", "Opt_write"}

\* the parent group of each kind of input
ParentOfWrite(op) ==
  CASE op = "E_write"   -> "efield"
    [] op = "Mrk_write" -> "marker"
    [] op = "Opt_write" -> "options"

\* C14: after any sequence of successful and rejected write_hdf5 calls (field,
\* marker, options) on one file, each successful call has added exactly one
\* new group under its own parent (efield, marker, options), and every group
\* written by an earlier call still holds the data of the call that created
\* it: no step changes or removes a group the file holds, a successful write
\* adds one group under its parent, and a read leaves the file as it is.
C14_WritesOnlyAdd ==
  [][/\ \A p \in DOMAIN file.groups :
          /\ p \in DOMAIN file'.groups
          /\ file'.groups[p] = file.groups[p]
     /\ file.exists => file'.exists
     /\ call'.op \in ReadOps => file' = file
     /\ (call'.op \in WriteOps /\ ret'.status = "ok") =>
          \E p \in DOMAIN file'.groups :
            /\ p \notin DOMAIN file.groups
            /\ DOMAIN file'.groups = DOMAIN file.groups \cup {p}
            /\ p[1] = ParentOfWrite(call'.op)]_vars

\* options were written to a file that held a field group or a marker group
\* of an earlier call
C14_Witness ==
  /\ call.op = "Opt_write"
  /\ ret.status = "ok"
  /\ file.groups[ret.value].dsets # NoGroups
  /\ \E p \in DOMAIN file.groups :
       /\ p[1] \in {"efield", "marker"}
       /\ file.groups[p].dsets # NoGroups

\* C15: options.write_hdf5 is all-or-nothing: if it raises because some
\* option value cannot be converted to a float array, the file contains no
\* new options group and no dataset of the rejected dictionary; malformed
\* input raises before any file mutation occurs.
C15_AllOrNothing ==
  [][(call'.op = "Opt_write" /\ ret'.status = "ValueError") =>
       /\ file'.exists = file.exists
       /\ DOMAIN file'.groups = DOMAIN file.groups
       /\ file' = file]_vars

====
